---- MODULE Spec2Model ----
(***************************************************************************)
(* A model of skbio.core.workflow: the Workflow executor (__call__), the   *)
(* method ordering (_all_wf_methods), the requirement gate                 *)
(* (Workflow.requires) and the debug tracer (_debug_trace_wrapper),        *)
(* driven by the SequenceProcessor class of the module docstring.          *)
(***************************************************************************)
EXTENDS Integers, Sequences, FiniteSets, TLC

\* ------------------------------------------------------------------ bounds

\* longest input iterable handed to a run
MaxItems == 2

\* ----------------------------------------------------------- Python values
\* A Python value is a record: t is its type, n its number (bool and int),
\* s its characters (str).  All values have the same fields so that any two
\* of them can be compared.

None == [t |-> "none", n |-> 0, s |-> <<>>]
PyTrue == [t |-> "bool", n |-> 1, s |-> <<>>]
PyFalse == [t |-> "bool", n |-> 0, s |-> <<>>]
PyInt(i) == [t |-> "int", n |-> i, s |-> <<>>]
PyStr(chars) == [t |-> "str", n |-> 0, s |-> chars]

\* Python's ==: bool is a subclass of int, so True == 1 and False == 0
PyEq(a, b) ==
    IF a.t \in {"bool", "int"} /\ b.t \in {"bool", "int"}
    THEN a.n = b.n
    ELSE a.t = b.t /\ a.n = b.n /\ a.s = b.s

\* x in <a set>: membership by ==
InSet(val, elems) == \E e \in elems : PyEq(val, e)

\* x in <a str>: substring test (the empty string is in every string)
IsSubstring(sub, str) ==
    \E i \in 0..(Len(str) - Len(sub)) :
        \A j \in 1..Len(sub) : str[i + j] = sub[j]

Range(seq) == {seq[i] : i \in 1..Len(seq)}

Reverse(seq) == [i \in 1..Len(seq) |-> seq[Len(seq) + 1 - i]]

\* ------------------------------------------------------ Workflow.requires
\* The values argument of requires(): the sentinels anything and not_none,
\* a set, another iterable (list), or a single literal.
Anything == [k |-> "anything", elems |-> {}, str |-> <<>>]
NotNone == [k |-> "not_none", elems |-> {}, str |-> <<>>]
ValSet(elems) == [k |-> "set", elems |-> elems, str |-> <<>>]
ValList(seq) == [k |-> "list", elems |-> Range(seq), str |-> <<>>]
ValLiteral(v) == [k |-> "literal", elems |-> {v}, str |-> v.s]

IsStrLiteral(values) ==
    values.k = "literal" /\ \A v \in values.elems : v.t = "str"

\* requires.__init__: what self.values becomes
RequiresValues(values) ==
    CASE values.k = "anything" -> Anything
      [] values.k = "not_none" -> NotNone
      [] values.k = "set" -> ValSet(values.elems)
      [] IsStrLiteral(values) ->
            [k |-> "str", elems |-> {}, str |-> values.str]
      [] OTHER -> ValSet(values.elems)

NoOption == "<no option>"
NoState == "<no state requirement>"

\* requires.__init__ (arg keeps the values argument as it was passed)
RequiresInit(option, values, state) ==
    [option |-> option, values |-> RequiresValues(values),
     required_state |-> state, arg |-> values]

\* the state predicates of the docstring's example
nuc_pattern == <<"A", "A", "T", "T", "G">>

\* a predicate that no state satisfies
has_no_pattern(s) == FALSE

has_nuc_pattern(s) ==
    SubSeq(s, 1, IF Len(s) < Len(nuc_pattern) THEN Len(s) ELSE Len(nuc_pattern))
        = nuc_pattern

\* required_state(dec_self.state): "True", "False", or "raise" (a state that
\* cannot be sliced, such as None)
RequiredState(pred, st) ==
    CASE pred = "has_nuc_pattern" ->
            IF st.t # "str" THEN "raise"
            ELSE IF has_nuc_pattern(st.s) THEN "True" ELSE "False"

\* with a NotNone.__contains__ that accepts None
ValueInNoneAccepted(val, values) ==
    CASE values.k = "anything" -> "True"
      [] values.k = "not_none" -> "True"
      [] values.k = "str" ->
            IF val.t # "str" THEN "raise"
            ELSE IF IsSubstring(val.s, values.str) THEN "True" ELSE "False"
      [] OTHER -> IF InSet(val, values.elems) THEN "True" ELSE "False"

\* val in self.values: "True", "False" or "raise" (TypeError: a str on the
\* right needs a str on the left)
ValueIn(val, values) ==
    CASE values.k = "anything" -> "True"
      [] values.k = "not_none" -> IF val = None THEN "False" ELSE "True"
      [] values.k = "str" ->
            IF val.t # "str" THEN "raise"
            ELSE IF IsSubstring(val.s, values.str) THEN "True" ELSE "False"
      [] OTHER -> IF InSet(val, values.elems) THEN "True" ELSE "False"

\* requires.__call__.decorated up to the call of func: "run" (func is
\* called), "skip" (_not_executed is returned) or "raise"
Decorated(req, opts, st) ==
    LET stateOk == IF req.required_state = NoState THEN "True"
                   ELSE RequiredState(req.required_state, st)
    IN  IF stateOk = "raise" THEN "raise"
        ELSE IF stateOk = "False" THEN "skip"
        ELSE IF req.option = NoOption THEN "run"
        ELSE IF req.option \in DOMAIN opts
        THEN LET val == opts[req.option]
             IN  IF req.values.k = "not_none" /\ val # None THEN "run"
                 ELSE LET in == ValueIn(val, req.values)
                      IN  IF in = "True" THEN "run"
                          ELSE IF in = "False" THEN "skip" ELSE "raise"
        ELSE "skip"

\* ------------------------------------------- the docstring's SequenceProcessor
\* dir(self), which is sorted by name: the members the model needs
DirSelf ==
    <<"_setup_debug_trace", "check_length", "check_min_length", "do_something",
      "initialize_state", "reverse", "state", "too_short", "truncate">>

\* the methods decorated with Workflow.method, in the order the class
\* statement declares them
Declared == <<"check_length", "truncate", "reverse">>

\* the priorities a class may pass to Workflow.method(priority=...)
Priorities == {80, 90, 100}

MinLength == 10

\* the requires decorator of each method (check_length has none)
SequenceProcessorRequires ==
    [truncate |-> RequiresInit(NoOption, Anything, "has_nuc_pattern"),
     reverse |-> RequiresInit("reverse", ValLiteral(PyTrue), NoState)]

\* a method of the subclass without Workflow.method, which workflow methods
\* may call: too_short(self, n) returns len(self.state) < n.  If the
\* instance was built with debug, _setup_debug has replaced it by wrapped(),
\* which takes no argument: the call raises TypeError.
TooShort(st, n, dbg) ==
    IF dbg \/ st.t # "str" THEN "raise"
    ELSE IF Len(st.s) < n THEN "True" ELSE "False"

\* the undecorated bodies (do_something is the "pass" of the docstring's
\* second class; check_min_length is check_length written with the helper
\* too_short): the new state, the new failed flag, and whether the body
\* raised (len(), a slice of None, the call of a wrapped helper)
MethodBody(name, st, fl, dbg) ==
    IF name = "do_something"
    THEN [state |-> st, failed |-> fl, raised |-> FALSE]
    ELSE IF st.t # "str"
    THEN [state |-> st, failed |-> fl, raised |-> TRUE]
    ELSE CASE name = "check_length" ->
                [state |-> st, failed |-> (fl \/ Len(st.s) < MinLength),
                 raised |-> FALSE]
           [] name = "check_min_length" ->
                [state |-> st,
                 failed |-> (fl \/ TooShort(st, MinLength, dbg) = "True"),
                 raised |-> TooShort(st, MinLength, dbg) = "raise"]
           [] name = "truncate" ->
                [state |-> PyStr(SubSeq(st.s, Len(nuc_pattern) + 1, Len(st.s))),
                 failed |-> fl, raised |-> FALSE]
           [] name = "reverse" ->
                [state |-> PyStr(Reverse(st.s)), failed |-> fl, raised |-> FALSE]

\* the method as the class holds it: result is "executed" (it returned None),
\* "_not_executed" or "raise"; dbg: the instance was built with debug, so
\* that the methods of the subclass are wrappers
Method(name, reqs, st, fl, opts, dbg) ==
    LET gate == IF name \in DOMAIN reqs
                THEN Decorated(reqs[name], opts, st)
                ELSE "run"
        body == MethodBody(name, st, fl, dbg)
    IN  CASE gate = "run" /\ ~body.raised ->
                [state |-> body.state, failed |-> body.failed,
                 result |-> "executed"]
          [] gate = "skip" ->
                [state |-> st, failed |-> fl, result |-> "_not_executed"]
          [] OTHER -> [state |-> st, failed |-> fl, result |-> "raise"]

\* an initialize_state that the base class would not have required
InitializeStateOptional(impl, item) ==
    [state |-> item, failed |-> FALSE, raised |-> FALSE]

\* initialize_state of the class: "assign" is the docstring's (self.state =
\* item); "validate" first marks an item that is too short as failed (len()
\* of an item that is not a string raises); "missing" is a class that does
\* not define it, so that the base class's raises NotImplementedError
InitializeState(impl, item) ==
    CASE impl = "missing" ->
            [state |-> item, failed |-> FALSE, raised |-> TRUE]
      [] impl = "validate" /\ item.t # "str" ->
            [state |-> item, failed |-> FALSE, raised |-> TRUE]
      [] OTHER ->
            [state |-> item,
             failed |-> (impl = "validate" /\ Len(item.s) < MinLength),
             raised |-> FALSE]

\* ---------------------------------------------------------- _all_wf_methods
\* sorted() without reverse=True
RECURSIVE SortedAscending(_, _)
SortedAscending(methods, prio) ==
    IF methods = <<>> THEN <<>>
    ELSE LET rest == SortedAscending(Tail(methods), prio)
             x == Head(methods)
             before == SelectSeq(rest, LAMBDA m : prio[m] < prio[x])
             after == SelectSeq(rest, LAMBDA m : prio[m] >= prio[x])
         IN  before \o <<x>> \o after

\* a sort that is not stable: methods of equal priority change places
RECURSIVE SortedReverseUnstable(_, _)
SortedReverseUnstable(methods, prio) ==
    IF methods = <<>> THEN <<>>
    ELSE LET rest == SortedReverseUnstable(Tail(methods), prio)
             x == Head(methods)
             before == SelectSeq(rest, LAMBDA m : prio[m] >= prio[x])
             after == SelectSeq(rest, LAMBDA m : prio[m] < prio[x])
         IN  before \o <<x>> \o after

\* sorted(methods, key=key, reverse=True): a stable sort, so methods of equal
\* priority stay in the order of the list that is sorted
RECURSIVE SortedReverse(_, _)
SortedReverse(methods, prio) ==
    IF methods = <<>> THEN <<>>
    ELSE LET rest == SortedReverse(Tail(methods), prio)
             x == Head(methods)
             \* x goes in front of the first method of a lower or equal key
             before == SelectSeq(rest, LAMBDA m : prio[m] > prio[x])
             after == SelectSeq(rest, LAMBDA m : prio[m] <= prio[x])
         IN  before \o <<x>> \o after

\* wrappers that do not carry the priority of the method they wrap (no
\* update_wrapper): with debug no method is found
AllWfMethodsWrappersLost(prio, dbg) ==
    IF dbg THEN <<"_setup_debug_trace">>
    ELSE SortedReverse(SelectSeq(DirSelf, LAMBDA item : item \in DOMAIN prio),
                       prio)

AllWfMethods(prio, dbg) ==
    LET methods == SelectSeq(DirSelf, LAMBDA item : item \in DOMAIN prio)
        methods_sorted == SortedReverse(methods, prio)
    IN  IF dbg THEN <<"_setup_debug_trace">> \o methods_sorted
        ELSE methods_sorted

\* ------------------------------------------------------------------- state
Runs == {1, 2}

\* the input iterables and the callbacks a run may be given
Items ==
    {PyStr(<<"A", "T", "A", "G", "A", "C", "C">>),
     PyStr(<<"A", "A", "T", "T", "G", "C", "C", "G", "G", "A", "C">>)}

Iterables == UNION {[1..n -> Items] : n \in 0..MaxItems}

\* the options of the docstring's two instances
OptionSets == {"reverse=" :> PyFalse, "reverse" :> PyTrue}

VARIABLES
    \* the class definition: the priority and the requires decorator of its
    \* workflow methods, and which initialize_state it supplies
    priority, requires, init_impl,
    \* the Workflow instance
    options, short_circuit, debug, state, failed,
    has_trace, debug_counter, debug_trace, debug_runtime, debug_pre_state,
    debug_post_state,
    \* the generators made by __call__ (one per run): arguments, locals,
    \* position and what they have yielded
    active, iter_, success_callback, fail_callback, workflow, consumed, idx,
    pc, out,
    \* the run whose generator is executing (0: none)
    running,
    \* history: the methods called for the item being processed, and the
    \* outcome of every item a run has finished
    evaluated, outcome

klass == <<priority, requires, init_impl>>
instance == <<options, short_circuit, debug, state, failed>>
trace == <<has_trace, debug_counter, debug_trace, debug_runtime,
           debug_pre_state, debug_post_state>>
args == <<active, iter_, success_callback, fail_callback>>
locals == <<workflow, consumed, idx, pc, out>>
vars == <<klass, instance, trace, args, locals, running, evaluated, outcome>>

\* ---------------------------------------------------------------- __init__
\* Workflow.__init__ followed by the creation of the generator(s); nothing
\* of __call__ runs before the first pull
InitInstanceOver(runs, iterables) ==
    /\ short_circuit \in BOOLEAN
    /\ debug \in BOOLEAN
    /\ state = None
    /\ failed = FALSE
    /\ has_trace = FALSE
    /\ debug_counter = 0
    /\ debug_trace = {}
    /\ debug_runtime = <<>>
    /\ debug_pre_state = <<>>
    /\ debug_post_state = <<>>
    /\ active = runs
    /\ iter_ \in [Runs -> iterables]
    /\ \A r \in Runs \ runs : iter_[r] = <<>>
    /\ success_callback \in [Runs -> {"None", "success_f"}]
    /\ fail_callback \in [Runs -> {"None", "fail_f"}]
    /\ \A r \in Runs \ runs :
          success_callback[r] = "None" /\ fail_callback[r] = "None"
    /\ workflow = [r \in Runs |-> <<>>]
    /\ consumed = [r \in Runs |-> 0]
    /\ idx = [r \in Runs |-> 0]
    /\ pc = [r \in Runs |-> "created"]
    /\ out = [r \in Runs |-> <<>>]
    /\ running = 0
    /\ evaluated = <<>>
    /\ outcome = [r \in Runs |-> <<>>]

InitInstance(runs) == InitInstanceOver(runs, Iterables)

\* a SequenceProcessor, with any priorities, and one run
Init ==
    /\ priority \in [Range(Declared) -> Priorities]
    /\ requires = SequenceProcessorRequires
    /\ init_impl \in {"assign", "validate"}
    /\ options \in OptionSets
    /\ InitInstance({1})

\* ------------------------------------------------------- _setup_debug_trace
TraceRecord ==
    [has_trace |-> has_trace, counter |-> debug_counter, trace |-> debug_trace,
     runtime |-> debug_runtime, pre_state |-> debug_pre_state,
     post_state |-> debug_post_state]

SetupDebugTrace(tr) ==
    [has_trace |-> TRUE, counter |-> 0, trace |-> {}, runtime |-> <<>>,
     pre_state |-> <<>>, post_state |-> <<>>]

\* --------------------------------------------------- _debug_trace_wrapper
\* an assignment that would not store anything
SetItemLost(d, key, value) == d

\* d[key] = value
SetItem(d, key, value) ==
    [k \in DOMAIN d \cup {key} |-> IF k = key THEN value ELSE d[k]]

\* a counter that is never incremented
NextCounterStuck(counter) == counter

\* self.debug_counter += 1
NextCounter(counter) == counter + 1

\* time() - start_time: the model keeps no clock
Elapsed == "time() - start_time"

\* a wrapper that leaves the key of a method that was not executed in the
\* trace
WrappedKeyKept(name, reqs, st, fl, opts, tr) ==
    IF ~tr.has_trace
    THEN [state |-> st, failed |-> fl, result |-> "raise", order |-> -1,
          tr |-> tr]
    ELSE LET exec_order == tr.counter
             key == <<name, exec_order>>
             entered == [tr EXCEPT !.trace = tr.trace \cup {key},
                                   !.counter = NextCounter(tr.counter)]
             m == Method(name, reqs, st, fl, opts, TRUE)
         IN  [state |-> m.state, failed |-> m.failed, result |-> m.result,
              order |-> exec_order,
              tr |-> IF m.result = "executed"
                     THEN [entered EXCEPT
                             !.runtime = SetItem(tr.runtime, key, Elapsed),
                             !.pre_state = SetItem(tr.pre_state, key, st),
                             !.post_state = SetItem(tr.post_state, key, m.state)]
                     ELSE entered]

\* wrapped(): the method's effect on state and failed, and the trace after it
Wrapped(name, reqs, st, fl, opts, tr) ==
    IF ~tr.has_trace
    THEN [state |-> st, failed |-> fl, result |-> "raise", order |-> -1,
          tr |-> tr]
    ELSE LET exec_order == tr.counter
             key == <<name, exec_order>>
             pre_state == st
             entered == [tr EXCEPT !.trace = tr.trace \cup {key},
                                   !.counter = NextCounter(tr.counter)]
             m == Method(name, reqs, st, fl, opts, TRUE)
         IN  [state |-> m.state, failed |-> m.failed, result |-> m.result,
              order |-> exec_order,
              tr |-> CASE m.result = "raise" -> entered
                       [] m.result = "_not_executed" ->
                            [entered EXCEPT !.trace = entered.trace \ {key}]
                       [] OTHER ->
                            [entered EXCEPT
                                !.runtime = SetItem(tr.runtime, key, Elapsed),
                                !.pre_state = SetItem(tr.pre_state, key, pre_state),
                                !.post_state = SetItem(tr.post_state, key, m.state)]]

\* what the loop of __call__ calls for a workflow method: the wrapper that
\* _setup_debug put on the instance if debug, else the method itself
Func(name, reqs, st, fl, opts, tr, dbg) ==
    IF dbg THEN Wrapped(name, reqs, st, fl, opts, tr)
    ELSE LET m == Method(name, reqs, st, fl, opts, FALSE)
         IN  [state |-> m.state, failed |-> m.failed, result |-> m.result,
              order |-> -1, tr |-> tr]

\* ----------------------------------------------------------------- __call__
\* a loop over the items that leaves failed as the item before left it
ResetFailedForgotten(fl) == fl

\* self.failed = False, at the top of the loop over the items
ResetFailed(fl) == FALSE

\* a loop over the methods without the break
ShortCircuitsNever(sc, fl) == FALSE

\* a loop that would break on a failed item whatever short_circuit is
ShortCircuitsAlways(sc, fl) == fl

\* if self.short_circuit and self.failed: break
ShortCircuits(sc, fl) == sc /\ fl

\* success_callback, with its default
SuccessCallback(cb) == IF cb = "None" THEN "lambda x: x.state" ELSE cb

\* a failed item without fail callback goes to the success callback
YieldCallbackFailedAsSuccess(fl, scb, fcb) ==
    IF fl /\ fcb # "None" THEN fcb ELSE SuccessCallback(scb)

\* the two branches exchanged
YieldCallbackSwapped(fl, scb, fcb) == IF fl THEN SuccessCallback(scb) ELSE fcb

\* the callback the item goes to after the loop ("None": there is none, and
\* nothing is yielded)
YieldCallback(fl, scb, fcb) == IF fl THEN fcb ELSE SuccessCallback(scb)

\* "%s" % obj.state
Format(st) == IF st.t = "str" THEN st.s ELSE <<"None">>

\* callback(self)
Callback(cb, st) ==
    CASE cb = "lambda x: x.state" -> st
      [] cb = "success_f" -> PyStr(<<"SUCCESS: ">> \o Format(st))
      [] cb = "fail_f" -> PyStr(<<"FAIL: ">> \o Format(st))

\* a generator that could be resumed while another one is inside an item
CanResumeAnytime(run, p) == p \in {"created", "suspended"}

\* next() resumes a generator that has not started or is suspended at its
\* yield; a generator that was resumed runs until its next yield, its end
\* or an exception before the consumer can call next() again
CanResume(run, p) == run = 0 /\ p \in {"created", "suspended"}

\* the consumer calls next() on the generator of run r: the generator runs
\* from where it was suspended; on the first pull, from the top of __call__
Pull(r) ==
    /\ r \in active
    /\ CanResume(running, pc[r])
    /\ running' = r
    /\ workflow' = IF pc[r] = "created"
                   THEN [workflow EXCEPT ![r] = AllWfMethods(priority, debug)]
                   ELSE workflow
    /\ pc' = [pc EXCEPT ![r] = "for"]
    /\ UNCHANGED <<klass, instance, trace, args, consumed, idx, out, evaluated,
                   outcome>>

\* an iteration that would stop before the last item
ExhaustedEarly(it, n) == n + 1 >= Len(it)

\* "for item in iter_" finds no further item after n were taken
Exhausted(it, n) == n = Len(it)

\* for item in iter_: the generator ends when iter_ is exhausted; else
\* failed is reset and initialize_state is called
NextItem(r) ==
    /\ running = r
    /\ pc[r] = "for"
    /\ IF Exhausted(iter_[r], consumed[r])
       THEN /\ pc' = [pc EXCEPT ![r] = "done"]
            /\ running' = 0
            /\ UNCHANGED <<state, failed, consumed, idx, evaluated>>
       ELSE LET item == iter_[r][consumed[r] + 1]
                init == InitializeState(init_impl, item)
            IN  /\ consumed' = [consumed EXCEPT ![r] = consumed[r] + 1]
                /\ state' = IF init.raised THEN state ELSE init.state
                /\ failed' = (ResetFailed(failed) \/ init.failed)
                /\ evaluated' = <<>>
                /\ idx' = [idx EXCEPT ![r] = 1]
                /\ pc' = [pc EXCEPT ![r] = IF init.raised THEN "raised" ELSE "loop"]
                /\ running' = IF init.raised THEN 0 ELSE r
    /\ UNCHANGED <<klass, options, short_circuit, debug, trace, args, workflow,
                   out, outcome>>

\* a loop that would catch what func() raises and go on
AfterCallCaught(result) == "loop"

\* where the generator is after func(): nothing in __call__ catches an
\* exception, so a raising call ends the generator
AfterCall(result) == IF result = "raise" THEN "raised" ELSE "loop"

\* one turn of "for func in workflow" that calls func()
CallFunc(r) ==
    /\ running = r
    /\ pc[r] = "loop"
    /\ idx[r] <= Len(workflow[r])
    /\ ~ShortCircuits(short_circuit, failed)
    /\ LET func == workflow[r][idx[r]]
           res == IF func = "_setup_debug_trace"
                  THEN [state |-> state, failed |-> failed, result |-> "executed",
                        order |-> -1, tr |-> SetupDebugTrace(TraceRecord)]
                  ELSE Func(func, requires, state, failed, options, TraceRecord,
                            debug)
       IN  /\ state' = res.state
           /\ failed' = res.failed
           /\ has_trace' = res.tr.has_trace
           /\ debug_counter' = res.tr.counter
           /\ debug_trace' = res.tr.trace
           /\ debug_runtime' = res.tr.runtime
           /\ debug_pre_state' = res.tr.pre_state
           /\ debug_post_state' = res.tr.post_state
           /\ evaluated' =
                IF func = "_setup_debug_trace" THEN evaluated
                ELSE Append(evaluated,
                            [name |-> func, order |-> res.order,
                             result |-> res.result, pre |-> state,
                             post |-> res.state, failed_before |-> failed,
                             failed_after |-> res.failed])
           /\ idx' = [idx EXCEPT ![r] = idx[r] + 1]
           /\ pc' = [pc EXCEPT ![r] = AfterCall(res.result)]
           /\ running' = IF AfterCall(res.result) = "raised" THEN 0 ELSE r
    /\ UNCHANGED <<klass, options, short_circuit, debug, args, workflow,
                   consumed, out, outcome>>

\* the loop over workflow ends: by break, or because the list is exhausted
EndLoop(r) ==
    /\ running = r
    /\ pc[r] = "loop"
    /\ idx[r] > Len(workflow[r]) \/ ShortCircuits(short_circuit, failed)
    /\ pc' = [pc EXCEPT ![r] = "after"]
    /\ UNCHANGED <<klass, instance, trace, args, workflow, consumed, idx, out,
                   running, evaluated, outcome>>

\* after the loop: yield the callback's value and suspend, or (a failed
\* item without fail_callback) go on with the next item
Yield(r) ==
    /\ running = r
    /\ pc[r] = "after"
    /\ LET cb == YieldCallback(failed, success_callback[r], fail_callback[r])
       IN  /\ outcome' = [outcome EXCEPT ![r] =
                            Append(@, [item |-> consumed[r], failed |-> failed,
                                       state |-> state, emitted |-> cb # "None"])]
           /\ IF cb = "None"
              THEN /\ pc' = [pc EXCEPT ![r] = "for"]
                   /\ UNCHANGED <<out, running>>
              ELSE /\ out' = [out EXCEPT ![r] =
                                Append(@, [item |-> consumed[r],
                                           value |-> Callback(cb, state)])]
                   /\ pc' = [pc EXCEPT ![r] = "suspended"]
                   /\ running' = 0
    /\ UNCHANGED <<klass, instance, trace, args, workflow, consumed, idx,
                   evaluated>>

Next ==
    \E r \in Runs : Pull(r) \/ NextItem(r) \/ CallFunc(r) \/ EndLoop(r) \/ Yield(r)

Spec == Init /\ [][Next]_vars

\* ------------------------------------------------------------ the gate alone
\* A class with one workflow method, do_something (priority 0, body "pass"),
\* under every requires decorator and every options built from these values.
GateValues ==
    {Anything, NotNone, ValSet({PyInt(1), PyInt(2)}),
     ValList(<<PyInt(2), PyInt(3)>>), ValLiteral(PyTrue), ValLiteral(PyInt(2)),
     ValLiteral(PyStr(<<"a", "b">>))}

GateOptionValues ==
    {None, PyTrue, PyInt(2), PyInt(3), PyStr(<<"a">>), PyStr(<<"a", "b">>)}

GateOptionSets == {<<>>} \cup {"foo" :> v : v \in GateOptionValues}

GateInit ==
    /\ priority = ("do_something" :> 0)
    /\ requires \in {"do_something" :> RequiresInit(o, v, p) :
                        o \in {NoOption, "foo"}, v \in GateValues,
                        p \in {NoState, "has_nuc_pattern"}}
    /\ init_impl = "assign"
    /\ options \in GateOptionSets
    /\ InitInstance({1})

SpecGate == GateInit /\ [][Next]_vars

\* ------------------------------------------------- a class with a helper
\* A SequenceProcessor whose length check is written with a helper method:
\* check_min_length calls self.too_short(10).
HelperInit ==
    /\ priority \in [{"check_min_length", "truncate", "reverse"} -> Priorities]
    /\ requires = SequenceProcessorRequires
    /\ init_impl = "assign"
    /\ options \in OptionSets
    /\ InitInstance({1})

SpecHelper == HelperInit /\ [][Next]_vars

\* the priorities of the docstring's SequenceProcessor
DocPriority ==
    ("check_length" :> 100) @@ ("truncate" :> 90) @@ ("reverse" :> 80)

\* ------------------------------------------- a consumer that keeps pulling
\* the docstring's SequenceProcessor and one run
PulledInit ==
    /\ priority = DocPriority
    /\ requires = SequenceProcessorRequires
    /\ init_impl \in {"assign", "validate"}
    /\ options \in OptionSets
    /\ InitInstance({1})

\* The docstring's loop "for result in gen" pulls until the generator ends,
\* and the interpreter runs a resumed generator up to its next yield: some
\* step is taken as long as one is possible.
SpecPulled == PulledInit /\ [][Next]_vars /\ WF_vars(Next)

\* ------------------------------------------------ the docstring's example
\* seqs = ['AAAAAAATTTTTTT', 'ATAGACC', 'AATTGCCGGAC', 'ATATGAACAAA']
Seqs ==
    <<PyStr(<<"A", "A", "A", "A", "A", "A", "A", "T", "T", "T", "T", "T", "T", "T">>),
      PyStr(<<"A", "T", "A", "G", "A", "C", "C">>),
      PyStr(<<"A", "A", "T", "T", "G", "C", "C", "G", "G", "A", "C">>),
      PyStr(<<"A", "T", "A", "T", "G", "A", "A", "C", "A", "A", "A">>)>>

\* SequenceProcessor(state=None, options=...) with short_circuit left at
\* its default, and wf(seqs, ...)
ExampleInit ==
    /\ priority = DocPriority
    /\ requires = SequenceProcessorRequires
    /\ init_impl = "assign"
    /\ options \in OptionSets
    /\ InitInstanceOver({1}, {<<>>, Seqs})
    /\ iter_[1] = Seqs
    /\ short_circuit

SpecExample == ExampleInit /\ [][Next]_vars

\* ------------------------------------------- two runs of one instance
\* gen1 = wf(seqs1, ...); gen2 = wf(seqs2, ...) on the same SequenceProcessor:
\* both generators exist before either is pulled
TwoRunsInit ==
    /\ priority = DocPriority
    /\ requires = SequenceProcessorRequires
    /\ init_impl = "assign"
    /\ options \in OptionSets
    /\ InitInstance({1, 2})
    /\ Len(iter_[1]) + Len(iter_[2]) <= MaxItems + 1
    /\ success_callback[1] = success_callback[2]

SpecTwoRuns == TwoRunsInit /\ [][Next]_vars

\* ------------------------------------------------------- runs that raise
\* items that need not be sequences
AnyItems == Items \cup {None}

AnyIterables == UNION {[1..n -> AnyItems] : n \in 0..MaxItems}

\* the docstring's SequenceProcessor, or a class without initialize_state,
\* given items some of which are None
RaiseInit ==
    /\ priority = DocPriority
    /\ requires = SequenceProcessorRequires
    /\ init_impl \in {"assign", "validate", "missing"}
    /\ options \in OptionSets
    /\ InitInstanceOver({1}, AnyIterables)

SpecRaise == RaiseInit /\ [][Next]_vars

\* ------------------------------------------------------------- properties
\* the workflow methods of the class
Methods == DOMAIN priority

NumMethods == Cardinality(Methods)

Last(seq) == seq[Len(seq)]

\* position of a name in a sequence of distinct names
IndexIn(seq, name) == CHOOSE i \in 1..Len(seq) : seq[i] = name

\* the keys the tracer made for the item being processed
ItemKeys == {<<evaluated[i].name, evaluated[i].order>> : i \in 1..Len(evaluated)}

\* C1: with short_circuit, no method is called for an item after a method
\* that left failed = True (a call is where the requirement is checked and
\* the body run), and with debug the trace of an item whose failing method
\* is not the last one has fewer keys than there are methods.
ShortCircuitStopsItem ==
    short_circuit =>
        /\ \A i \in 1..Len(evaluated) :
              evaluated[i].failed_after => i = Len(evaluated)
        /\ (/\ debug
            /\ evaluated # <<>>
            /\ Last(evaluated).failed_after
            /\ Len(evaluated) < NumMethods)
           => Cardinality(debug_trace) < NumMethods

ShortCircuitWitness ==
    /\ short_circuit /\ debug
    /\ pc[1] = "after"
    /\ Len(evaluated) = 2
    /\ evaluated[1].result = "executed"
    /\ Last(evaluated).name = "check_length"
    /\ ~Last(evaluated).failed_before /\ Last(evaluated).failed_after
    /\ Cardinality(debug_trace) = 2

\* C2: the methods called for an item are in descending order of priority:
\* when a method is called, every method of a strictly higher priority has
\* been called for the item before it.
DescendingPriority ==
    \A j \in 1..Len(evaluated) :
        /\ \A i \in 1..(j - 1) :
              priority[evaluated[i].name] >= priority[evaluated[j].name]
        /\ \A m \in Methods :
              priority[m] > priority[evaluated[j].name]
              => \E i \in 1..(j - 1) : evaluated[i].name = m

\* the priorities reverse the order of the names and differ from the order
\* of declaration
DescendingPriorityWitness ==
    /\ consumed[1] = 2
    /\ Len(evaluated) = 3
    /\ evaluated[1].name = "truncate"
    /\ evaluated[2].name = "reverse"
    /\ evaluated[3].name = "check_length"
    /\ priority["truncate"] > priority["reverse"]
    /\ priority["reverse"] > priority["check_length"]

GateTable(req, opts, st) ==
    IF req.required_state # NoState /\ ~has_nuc_pattern(st.s) THEN "_not_executed"
    ELSE IF req.option = NoOption THEN "executed"
    ELSE IF req.option \notin DOMAIN opts THEN "_not_executed"
    ELSE CASE req.arg.k = "anything" -> "executed"
           [] req.arg.k = "not_none" ->
                IF opts[req.option] = None THEN "_not_executed" ELSE "executed"
           [] req.arg.k \in {"set", "list"} ->
                IF \E e \in req.arg.elems : PyEq(opts[req.option], e)
                THEN "executed" ELSE "_not_executed"

\* C4: a method whose requires decorator names ANY, NOT_NONE or an explicit
\* set of values is run or skipped as the table says, for every state,
\* option presence, option value and value spec.
GateFollowsTable ==
    \A i \in 1..Len(evaluated) :
        LET req == requires[evaluated[i].name]
        IN  req.arg.k \in {"anything", "not_none", "set", "list"}
            => evaluated[i].result = GateTable(req, options, evaluated[i].pre)

\* a state predicate that holds, and a value that is a member of the set
GateFollowsTableWitness ==
    /\ Len(evaluated) = 1
    /\ requires["do_something"].arg.k = "set"
    /\ requires["do_something"].required_state = "has_nuc_pattern"
    /\ requires["do_something"].option \in DOMAIN options
    /\ evaluated[1].result = "executed"

\* C5: a method whose requires decorator names a single literal is run iff
\* the option's value equals the literal and skipped otherwise, for a
\* literal of any type.
LiteralRunsIffEqual ==
    \A i \in 1..Len(evaluated) :
        LET req == requires[evaluated[i].name]
        IN  (/\ req.arg.k = "literal"
             /\ req.required_state = NoState
             /\ req.option \in DOMAIN options)
            => \A lit \in req.arg.elems :
                  evaluated[i].result =
                      IF PyEq(options[req.option], lit) THEN "executed"
                      ELSE "_not_executed"

\* the failed items among the outcomes of run r
FailedItems(r) == {i \in 1..Len(outcome[r]) : outcome[r][i].failed}

\* a pull of run r has returned: the generator is suspended at a yield or
\* has ended
PullBoundary(r) == running = 0 /\ pc[r] \in {"suspended", "done"}

\* C6: without callbacks a run yields the state of every item that is not
\* failed after the loop, and nothing for a failed item, so that it yields
\* as many values as it had items minus the failed ones; with a fail
\* callback a failed item yields fail_callback(self).
DefaultCallbacks ==
    \A r \in active :
        LET succeeded == SelectSeq(outcome[r], LAMBDA o : ~o.failed)
        IN  /\ (success_callback[r] = "None" /\ fail_callback[r] = "None")
               => /\ out[r] = [k \in 1..Len(succeeded) |->
                                  [item |-> succeeded[k].item,
                                   value |-> succeeded[k].state]]
                  /\ Len(out[r]) = Len(outcome[r]) - Cardinality(FailedItems(r))
                  /\ pc[r] = "done" => Len(outcome[r]) = Len(iter_[r])
            /\ fail_callback[r] # "None"
               => \A i \in FailedItems(r) :
                     \E k \in 1..Len(out[r]) :
                        out[r][k] = [item |-> i,
                                     value |-> Callback(fail_callback[r],
                                                        outcome[r][i].state)]

\* two items, the first failed and dropped, the second yielded
DefaultCallbacksWitness ==
    /\ success_callback[1] = "None" /\ fail_callback[1] = "None"
    /\ pc[1] = "done"
    /\ Len(iter_[1]) = 2
    /\ outcome[1][1].failed
    /\ Len(out[1]) = 1
    /\ out[1][1].item = 2

\* C7, as claimed: at every pull boundary a run has yielded one value per
\* item it consumed, the k-th value for the k-th item, whatever the callbacks.
OneOutputPerItem ==
    \A r \in active :
        PullBoundary(r)
        => /\ Len(out[r]) = consumed[r]
           /\ \A k \in 1..Len(out[r]) : out[r][k].item = k

\* the items of run r that were dropped: failed, with no fail callback
Dropped(r) == IF fail_callback[r] = "None" THEN FailedItems(r) ELSE {}

\* C7, amended: at every pull boundary a run has yielded one value per item
\* it consumed except the failed items dropped for want of a fail callback,
\* in input order; with a fail callback, the k-th value is for the k-th item.
OneOutputPerItemNotDropped ==
    \A r \in active :
        PullBoundary(r)
        => /\ Len(out[r]) = consumed[r] - Cardinality(Dropped(r))
           /\ {out[r][k].item : k \in 1..Len(out[r])}
                = (1..consumed[r]) \ Dropped(r)
           /\ \A k \in 1..(Len(out[r]) - 1) : out[r][k].item < out[r][k + 1].item
           /\ fail_callback[r] # "None"
              => \A k \in 1..Len(out[r]) : out[r][k].item = k

\* one pull that consumed two items: the first dropped, the second yielded
OneOutputPerItemNotDroppedWitness ==
    /\ PullBoundary(1)
    /\ pc[1] = "suspended"
    /\ fail_callback[1] = "None"
    /\ consumed[1] = 2
    /\ Len(out[1]) = 1
    /\ out[1][1].item = 2

\* what initialize_state does with the item run r is processing
InitOfItem(r) == InitializeState(init_impl, iter_[r][consumed[r]])

\* C8: failed is reset for every item before initialize_state: while an item
\* is processed, failed is true only if initialize_state or a method called
\* for this item set it, so that no earlier item's failure skips a method
\* or sends this item to the fail path.
FailureIsOfThisItem ==
    \A r \in active :
        (running = r /\ pc[r] \in {"loop", "after"})
        => /\ evaluated = <<>> => failed = InitOfItem(r).failed
           /\ failed
              => \/ InitOfItem(r).failed
                 \/ \E i \in 1..Len(evaluated) :
                       ~evaluated[i].failed_before /\ evaluated[i].failed_after

\* the first item failed, and every method was called for the second
FailureIsOfThisItemWitness ==
    /\ running = 1
    /\ pc[1] = "after"
    /\ consumed[1] = 2
    /\ outcome[1][1].failed
    /\ ~failed
    /\ Len(evaluated) = NumMethods

\* C9: with debug, the i-th method called for an item gets order i-1,
\* whether or not it was gated out; the key of an executed method is in the
\* trace, a gated-out method leaves its order number unused, and no two keys
\* of the trace share an order number.
TraceOrderNumbers ==
    debug =>
        /\ \A i \in 1..Len(evaluated) :
              /\ evaluated[i].order = i - 1
              /\ evaluated[i].result = "executed"
                 => <<evaluated[i].name, i - 1>> \in debug_trace
              /\ evaluated[i].result = "_not_executed"
                 => \A key \in debug_trace : key[2] # i - 1
        /\ \A k1, k2 \in debug_trace : k1[2] = k2[2] => k1 = k2

\* the second of three methods was gated out: the trace has orders 0 and 2
TraceOrderNumbersWitness ==
    /\ debug
    /\ Len(evaluated) = 3
    /\ evaluated[2].result = "_not_executed"
    /\ debug_trace = {<<evaluated[1].name, 0>>, <<evaluated[3].name, 2>>}

\* C10: with debug, when the outcome of an item is about to be yielded or
\* dropped, the trace, the runtimes and the state snapshots hold only keys
\* made while that item was processed.
TraceIsOfThisItem ==
    debug =>
        \A r \in active :
            (running = r /\ pc[r] = "after")
            => /\ debug_trace \subseteq ItemKeys
               /\ DOMAIN debug_runtime \subseteq ItemKeys
               /\ DOMAIN debug_pre_state \subseteq ItemKeys
               /\ DOMAIN debug_post_state \subseteq ItemKeys

\* C11: a method whose requirement is not satisfied leaves state and failed
\* as they were, and with debug its key is not in the trace after the call
\* and it has no runtime, pre-state or post-state entry.
GatedOutChangesNothing ==
    \A i \in 1..Len(evaluated) :
        evaluated[i].result = "_not_executed"
        => /\ evaluated[i].post = evaluated[i].pre
           /\ evaluated[i].failed_after = evaluated[i].failed_before
           /\ debug
              => LET key == <<evaluated[i].name, evaluated[i].order>>
                 IN  /\ key \notin debug_trace
                     /\ key \notin DOMAIN debug_runtime
                     /\ key \notin DOMAIN debug_pre_state
                     /\ key \notin DOMAIN debug_post_state

\* with debug, reverse was gated out by the options after a method that was
\* executed
GatedOutChangesNothingWitness ==
    /\ debug
    /\ Len(evaluated) >= 2
    /\ Last(evaluated).name = "reverse"
    /\ Last(evaluated).result = "_not_executed"
    /\ evaluated[1].result = "executed"
    /\ debug_trace # {}

\* the loop of __call__ over the methods funcs for an instance built with
\* debug=False, from state st and failed flag fl: the calls made, and the
\* state and the failed flag after the loop
RECURSIVE PlainLoop(_, _, _, _)
PlainLoop(funcs, st, fl, calls) ==
    IF funcs = <<>> \/ ShortCircuits(short_circuit, fl)
    THEN [state |-> st, failed |-> fl, calls |-> calls, raised |-> FALSE]
    ELSE LET m == Func(Head(funcs), requires, st, fl, options, TraceRecord, FALSE)
             call == [name |-> Head(funcs), result |-> m.result,
                      post |-> m.state, failed_after |-> m.failed]
         IN  IF m.result = "raise"
             THEN [state |-> st, failed |-> fl, calls |-> Append(calls, call),
                   raised |-> TRUE]
             ELSE PlainLoop(Tail(funcs), m.state, m.failed, Append(calls, call))

\* an item processed by an instance built with debug=False
PlainItem(item) ==
    LET init == InitializeState(init_impl, item)
    IN  IF init.raised
        THEN [state |-> state, failed |-> ResetFailed(failed), calls |-> <<>>,
              raised |-> TRUE]
        ELSE PlainLoop(AllWfMethods(priority, FALSE), init.state,
                       ResetFailed(failed) \/ init.failed, <<>>)

\* what the k-th call for the item being processed was
CallOf(k) ==
    [name |-> evaluated[k].name, result |-> evaluated[k].result,
     post |-> evaluated[k].post, failed_after |-> evaluated[k].failed_after]

\* C12: a run with debug=True calls the same methods in the same order, with
\* the same effect on state and failed, and yields the same values, as the
\* run of an instance with debug=False on the same items: the tracer never
\* changes failed.
TracerTransparent ==
    debug =>
        \A r \in active :
            /\ ((running = r /\ pc[r] \in {"loop", "after"})
                  \/ (active = {r} /\ pc[r] = "raised"))
               => LET plain == PlainItem(iter_[r][consumed[r]])
                  IN  /\ Len(evaluated) <= Len(plain.calls)
                      /\ \A k \in 1..Len(evaluated) : CallOf(k) = plain.calls[k]
                      /\ pc[r] = "raised" => plain.raised
                      /\ pc[r] = "after"
                         => /\ Len(evaluated) = Len(plain.calls)
                            /\ state = plain.state
                            /\ failed = plain.failed
            /\ \A i \in 1..Len(outcome[r]) :
                  LET plain == PlainItem(iter_[r][i])
                  IN  /\ outcome[r][i].failed = plain.failed
                      /\ outcome[r][i].state = plain.state
            /\ \A k \in 1..Len(out[r]) :
                  LET plain == PlainItem(iter_[r][out[r][k].item])
                      cb == YieldCallback(plain.failed, success_callback[r],
                                          fail_callback[r])
                  IN  cb # "None" /\ out[r][k].value = Callback(cb, plain.state)

\* with debug, an item was truncated, reversed and yielded, and the trace
\* has the three keys
TracerTransparentWitness ==
    /\ debug
    /\ pc[1] = "suspended"
    /\ Len(out[1]) = 1
    /\ Len(evaluated) = 3
    /\ \A k \in 1..3 : evaluated[k].result = "executed"
    /\ Cardinality(debug_trace) = 3
    /\ ~failed

\* a run that raised: control is back with the consumer, nothing was yielded
\* or recorded for the item being processed, and what raised was
\* initialize_state or the last call made
RaisedRunIsOver(r) ==
    /\ running # r
    /\ consumed[r] >= 1
    /\ \A i \in 1..Len(out[r]) : out[r][i].item < consumed[r]
    /\ \A i \in 1..Len(outcome[r]) : outcome[r][i].item < consumed[r]
    /\ active = {r}
       => \/ evaluated = <<>> /\ InitOfItem(r).raised
          \/ evaluated # <<>> /\ Last(evaluated).result = "raise"

\* a step of the program leaves a run that raised where it is
RaisedRunStays(r) ==
    pc[r] = "raised"
    => /\ pc'[r] = "raised"
       /\ consumed'[r] = consumed[r]
       /\ out'[r] = out[r]
       /\ outcome'[r] = outcome[r]
       /\ active = {r} => UNCHANGED <<state, failed, evaluated, trace>>

\* C13: when initialize_state or a method raises, the exception ends the
\* generator: no call follows the raising one, nothing is yielded for the
\* item, and no later item is ever taken from the iterable.
ExceptionEndsSequence ==
    /\ [](\A r \in active :
            /\ pc[r] = "raised" => RaisedRunIsOver(r)
            /\ (active = {r} /\ consumed[r] >= 1
                /\ (InitOfItem(r).raised
                    \/ \E k \in 1..Len(evaluated) : evaluated[k].result = "raise"))
               => pc[r] = "raised")
    /\ [][\A r \in active : RaisedRunStays(r)]_vars

\* a method raised on the first of two items, after 'check_length' ran
ExceptionEndsSequenceWitness ==
    /\ pc[1] = "raised"
    /\ consumed[1] = 1
    /\ Len(iter_[1]) = 2
    /\ Len(evaluated) = 1
    /\ Last(evaluated).result = "raise"

\* initialize_state raised on the second item, after the first was yielded
ExceptionInInitializeState ==
    /\ pc[1] = "raised"
    /\ consumed[1] = 2
    /\ init_impl = "validate"
    /\ evaluated = <<>>
    /\ Len(out[1]) = 1

\* what a consumer that has pulled from run r has got back: the run is not
\* in the middle of a pull, and it is not a generator nobody has started
PullReturned(r) == running # r /\ pc[r] # "created"

\* C14 as stated: a class without initialize_state fails as soon as the
\* run is pulled, for every iterable.
MissingInitializeStateAlwaysFails ==
    init_impl = "missing"
    => \A r \in active : PullReturned(r) => pc[r] = "raised"

\* C14: a class without initialize_state fails at the first pull of a run
\* over a non-empty iterable, before any method is called and before
\* anything is yielded (with debug, before the trace is set up); a run over
\* an empty iterable ends without an error.
MissingInitializeStateFailsOnFirstItem ==
    init_impl = "missing"
    => /\ evaluated = <<>>
       /\ ~has_trace
       /\ state = None
       /\ \A r \in active :
             /\ out[r] = <<>> /\ outcome[r] = <<>>
             /\ consumed[r] <= 1
             /\ PullReturned(r)
                => pc[r] = IF iter_[r] = <<>> THEN "done" ELSE "raised"

\* the first pull of a run over two items has raised
MissingInitializeStateWitness ==
    /\ init_impl = "missing"
    /\ pc[1] = "raised"
    /\ Len(iter_[1]) = 2
    /\ consumed[1] = 1

\* run r has ended and every item of its iterable has exactly one recorded
\* outcome, in the order of the iterable: yielded through the success
\* callback, yielded through the fail callback, or (failed, no fail
\* callback) dropped
AllItemsSettled(r) ==
    /\ pc[r] = "done"
    /\ consumed[r] = Len(iter_[r])
    /\ Len(outcome[r]) = Len(iter_[r])
    /\ \A i \in 1..Len(outcome[r]) :
          /\ outcome[r][i].item = i
          /\ outcome[r][i].emitted
             <=> (~outcome[r][i].failed \/ fail_callback[r] # "None")
    /\ Len(out[r]) = Cardinality({i \in 1..Len(outcome[r]) : outcome[r][i].emitted})
    /\ \A k \in 1..Len(out[r]) :
          LET o == outcome[r][out[r][k].item]
          IN  /\ o.emitted
              /\ \A j \in 1..(k - 1) : out[r][j].item < out[r][k].item
              /\ out[r][k].value =
                   Callback(YieldCallback(o.failed, success_callback[r],
                                          fail_callback[r]), o.state)

\* initialize_state is called for one item at a time, in order
OneItemAtATime ==
    \A r \in active :
        \/ consumed'[r] = consumed[r]
        \/ /\ consumed'[r] = consumed[r] + 1
           /\ pc[r] = "for" /\ pc'[r] = "loop"
           /\ evaluated' = <<>>

\* C15: a run over a finite iterable that the consumer pulls until it ends
\* does end; by then initialize_state was called once for each item, and each
\* item has exactly one outcome: yielded as a success, yielded as a failure,
\* or dropped as a failure without fail callback.
PulledRunEnds ==
    /\ <>[](\A r \in active : AllItemsSettled(r))
    /\ [][OneItemAtATime]_vars

\* a run over two items has ended: one item was dropped, one was yielded
PulledRunEndsWitness ==
    /\ AllItemsSettled(1)
    /\ Len(iter_[1]) = 2
    /\ Len(out[1]) = 1
    /\ fail_callback[1] = "None"

\* the docstring's results: per item, whether it failed and its final state,
\* without and with the option 'reverse'
ExampleFailed == <<FALSE, TRUE, FALSE, FALSE>>

ExampleState ==
    <<Seqs[1], Seqs[2], PyStr(<<"C", "C", "G", "G", "A", "C">>), Seqs[4]>>

ExampleStateReversed ==
    <<PyStr(<<"T", "T", "T", "T", "T", "T", "T", "A", "A", "A", "A", "A", "A", "A">>),
      Seqs[2],
      PyStr(<<"C", "A", "G", "G", "C", "C">>)>>

\* wf.debug_trace after each of the first three items
ExampleTrace ==
    <<{<<"check_length", 0>>, <<"reverse", 2>>},
      {<<"check_length", 0>>},
      {<<"check_length", 0>>, <<"truncate", 1>>, <<"reverse", 2>>}>>

\* what the docstring's first loop prints
ExamplePrinted ==
    <<PyStr(<<"SUCCESS: ">> \o Seqs[1].s),
      PyStr(<<"FAIL: ">> \o Seqs[2].s),
      PyStr(<<"SUCCESS: ">> \o ExampleState[3].s),
      PyStr(<<"SUCCESS: ">> \o Seqs[4].s)>>

\* the loop over the methods has ended for item i
ItemDone(i) == consumed[1] = i /\ pc[1] \in {"after", "suspended"}

\* C16: the docstring's SequenceProcessor on the docstring's four sequences.
\* Without 'reverse': success unchanged, failure of 'ATAGACC', success
\* 'CCGGAC', success unchanged.  With 'reverse' and debug: 'TTTTTTTAAAAAAA'
\* with trace {(check_length,0),(reverse,2)}; failure of 'ATAGACC' with
\* trace {(check_length,0)}; 'CAGGCC' with all three keys, and the pre- and
\* post-state of (truncate,1) are 'AATTGCCGGAC' and 'CCGGAC'.
ExampleResults ==
    /\ options = ("reverse=" :> PyFalse)
       => /\ \A i \in 1..Len(outcome[1]) :
                /\ outcome[1][i].failed = ExampleFailed[i]
                /\ outcome[1][i].state = ExampleState[i]
          /\ (success_callback[1] = "success_f" /\ fail_callback[1] = "fail_f")
             => \A k \in 1..Len(out[1]) : out[1][k].value = ExamplePrinted[k]
    /\ options = ("reverse" :> PyTrue)
       => /\ \A i \in 1..Len(outcome[1]) :
                i <= 3 => /\ outcome[1][i].failed = ExampleFailed[i]
                          /\ outcome[1][i].state = ExampleStateReversed[i]
          /\ debug
             => /\ \A i \in 1..3 : ItemDone(i) => debug_trace = ExampleTrace[i]
                /\ ItemDone(3)
                   => /\ debug_pre_state[<<"truncate", 1>>] = Seqs[3]
                      /\ debug_post_state[<<"truncate", 1>>] = ExampleState[3]

\* the debug run of the docstring has yielded its third item
ExampleResultsWitness ==
    /\ options = ("reverse" :> PyTrue)
    /\ debug
    /\ fail_callback[1] # "None"
    /\ pc[1] = "suspended"
    /\ Len(out[1]) = 3
    /\ out[1][3].value = ExampleStateReversed[3]

\* the first run of the docstring has printed its four lines
ExamplePrintedAll ==
    /\ options = ("reverse=" :> PyFalse)
    /\ pc[1] = "done"
    /\ Len(out[1]) = 4
    /\ success_callback[1] = "success_f"

\* initialize_state has just been called for an item of run r, and nothing
\* else has run since
JustInitialized(r) == running = r /\ pc[r] = "loop" /\ idx[r] = 1

\* C17: initialize_state is called before every workflow method of the item,
\* and with debug only _setup_debug_trace runs before it: when
\* initialize_state runs the trace attributes exist and are reset.
InitializeStateAfterTraceReset ==
    \A r \in active :
        JustInitialized(r)
        => /\ evaluated = <<>>
           /\ debug => /\ has_trace
                       /\ debug_counter = 0
                       /\ debug_trace = {}
                       /\ debug_runtime = <<>>
                       /\ debug_pre_state = <<>>
                       /\ debug_post_state = <<>>

\* the item of run r that was processed last has been routed
Routed(r) ==
    /\ consumed[r] >= 1
    /\ Len(outcome[r]) = consumed[r]
    /\ pc[r] \in {"for", "suspended"}

\* C18: with short_circuit=False every workflow method is called for every
\* item, also for an item that is already failed, and the item goes to the
\* fail callback iff failed is set when the loop over the methods has ended.
NoShortCircuitEvaluatesAll ==
    ~short_circuit
    => \A r \in active :
          /\ (running = r /\ pc[r] = "after")
             => /\ Len(evaluated) = NumMethods
                /\ \A k \in 1..NumMethods :
                      evaluated[k].name = AllWfMethods(priority, FALSE)[k]
                /\ failed = Last(evaluated).failed_after
          /\ ((running = r \/ active = {r}) /\ Routed(r))
             => LET o == Last(outcome[r])
                IN  /\ Len(evaluated) = NumMethods
                    /\ o.failed = Last(evaluated).failed_after
                    /\ o.state = Last(evaluated).post
                    /\ o.emitted <=> (~o.failed \/ fail_callback[r] # "None")
                    /\ (o.failed /\ o.emitted)
                       => Last(out[r]).value = Callback(fail_callback[r], o.state)
                    /\ ~o.failed
                       => Last(out[r]).value =
                            Callback(SuccessCallback(success_callback[r]), o.state)

\* without short circuit, a method changed the state of an item that had
\* already failed, and the item went to the fail callback
NoShortCircuitWitness ==
    /\ ~short_circuit
    /\ pc[1] = "suspended"
    /\ Len(evaluated) = NumMethods
    /\ \E k \in 2..Len(evaluated) :
          /\ evaluated[k].failed_before
          /\ evaluated[k].post # evaluated[k].pre
    /\ Last(outcome[1]).failed
    /\ Last(out[1]).value = Callback("fail_f", state)

\* the key under which the k-th call for the current item was traced
KeyOf(k) == <<evaluated[k].name, evaluated[k].order>>

\* C19: with debug, between two calls and after the loop, debug_runtime,
\* debug_pre_state and debug_post_state have exactly the keys of
\* debug_trace, and the pre- and post-state recorded for a method that
\* executed are the state just before and just after it ran.
TraceRecordsMatchTrace ==
    debug
    => /\ DOMAIN debug_runtime = debug_trace
       /\ DOMAIN debug_pre_state = debug_trace
       /\ DOMAIN debug_post_state = debug_trace
       /\ \A k \in 1..Len(evaluated) :
             evaluated[k].result = "executed"
             => /\ KeyOf(k) \in debug_trace
                /\ debug_pre_state[KeyOf(k)] = evaluated[k].pre
                /\ debug_post_state[KeyOf(k)] = evaluated[k].post

\* with debug, three methods executed for an item, and the records of
\* 'truncate' show its change of state
TraceRecordsWitness ==
    /\ debug
    /\ pc[1] = "after"
    /\ Cardinality(debug_trace) = 3
    /\ \E k \in 1..Len(evaluated) :
          /\ evaluated[k].name = "truncate"
          /\ KeyOf(k) \in debug_trace
          /\ debug_post_state[KeyOf(k)] # debug_pre_state[KeyOf(k)]

\* what a run over the items it[from..], alone on an instance, yields
RECURSIVE SoloOutputs(_, _, _, _)
SoloOutputs(it, from, scb, fcb) ==
    IF from > Len(it) THEN <<>>
    ELSE LET plain == PlainItem(it[from])
             cb == YieldCallback(plain.failed, scb, fcb)
             rest == SoloOutputs(it, from + 1, scb, fcb)
         IN  IF cb = "None" THEN rest
             ELSE <<[item |-> from, value |-> Callback(cb, plain.state)]>> \o rest

\* what run r would yield alone
Solo(r) == SoloOutputs(iter_[r], 1, success_callback[r], fail_callback[r])

\* C20: two generators of one instance, pulled in any interleaving, each
\* yield what they would yield alone: a pull runs whole items and suspends
\* only at the yield.  state and failed of the instance are those of the
\* item some run processed last.
InterleavedRunsYieldSolo ==
    /\ \A r \in active :
          /\ pc[r] \in {"loop", "after"} => running = r
          /\ out[r] # <<>> \/ pc[r] = "done"
             => LET solo == Solo(r)
                IN  /\ Len(out[r]) <= Len(solo)
                    /\ out[r] = SubSeq(solo, 1, Len(out[r]))
                    /\ pc[r] = "done" => out[r] = solo
    /\ (running = 0 /\ \E r \in active : outcome[r] # <<>>)
       => \E r \in active :
             /\ outcome[r] # <<>>
             /\ state = Last(outcome[r]).state
             /\ failed = Last(outcome[r]).failed

\* run 1 has ended and run 2 was pulled once, last: the instance holds the
\* state of run 2's item, which differs from that of run 1's last item
InterleavedRunsWitness ==
    /\ active = {1, 2}
    /\ pc[1] = "done" /\ pc[2] = "suspended"
    /\ Len(out[1]) = 2 /\ Len(out[2]) = 1
    /\ consumed[2] = 1
    /\ state = Last(outcome[2]).state
    /\ state # Last(outcome[1]).state

============================================================================
